---- MODULE Spec2Model ----
(***************************************************************************)
(* Model of app.py: the Flask relay handler api_proxy (POST /api/proxy),   *)
(* its worker threads, and the bootstrap main().                           *)
(*                                                                         *)
(* Python values are records [kind, truthy, str, dict]; text that the code *)
(* case-converts (method, header names) is a sequence of one-character     *)
(* strings, so that str.upper() and str.lower() are computed character by  *)
(* character.  Library calls (requests.request, app.run, input) are the    *)
(* environment: each returns or raises, as the try/except clauses of the   *)
(* source distinguish.                                                     *)
(***************************************************************************)
EXTENDS Integers, Sequences, FiniteSets, TLC

----------------------------------------------------------------------------
(* Bounds of the model *)

NumThreads == 2
MaxHeaders == 2
MaxRespHeaders == 1
TickSeconds == 60
NumPorts == 2

Threads == 1..NumThreads

----------------------------------------------------------------------------
(* Text: str.upper() and str.lower() *)

LowerLetters == <<"a","b","c","d","e","f","g","h","i","j","k","l","m",
                  "n","o","p","q","r","s","t","u","v","w","x","y","z">>
UpperLetters == <<"A","B","C","D","E","F","G","H","I","J","K","L","M",
                  "N","O","P","Q","R","S","T","U","V","W","X","Y","Z">>

UpperChar(c) ==
    IF \E i \in DOMAIN LowerLetters : LowerLetters[i] = c
    THEN UpperLetters[CHOOSE i \in DOMAIN LowerLetters : LowerLetters[i] = c]
    ELSE c

LowerChar(c) ==
    IF \E i \in DOMAIN UpperLetters : UpperLetters[i] = c
    THEN LowerLetters[CHOOSE i \in DOMAIN UpperLetters : UpperLetters[i] = c]
    ELSE c

Upper(s) == [i \in DOMAIN s |-> UpperChar(s[i])]
Lower(s) == [i \in DOMAIN s |-> LowerChar(s[i])]

(* Literals of the source *)
s_POST == <<"P","O","S","T">>
s_GET == <<"G","E","T">>
s_host == <<"h","o","s","t">>
s_Host == <<"H","o","s","t">>
s_content_length == <<"c","o","n","t","e","n","t","-","l","e","n","g","t","h">>
s_Content_Length == <<"C","o","n","t","e","n","t","-","L","e","n","g","t","h">>
s_content_encoding ==
    <<"c","o","n","t","e","n","t","-","e","n","c","o","d","i","n","g">>
s_transfer_encoding ==
    <<"t","r","a","n","s","f","e","r","-","e","n","c","o","d","i","n","g">>
s_connection == <<"c","o","n","n","e","c","t","i","o","n">>

----------------------------------------------------------------------------
(* Python values *)

EmptyMap == <<>>

PyMissing == [kind |-> "missing", truthy |-> FALSE, str |-> <<>>, dict |-> EmptyMap]
PyNone == [kind |-> "None", truthy |-> FALSE, str |-> <<>>, dict |-> EmptyMap]
PyStr(s) == [kind |-> "str", truthy |-> s # <<>>, str |-> s, dict |-> EmptyMap]
PyInt(digits) ==
    [kind |-> "int", truthy |-> digits # <<"0">>, str |-> digits, dict |-> EmptyMap]
PyList(items) ==
    [kind |-> "list", truthy |-> items # <<>>, str |-> items, dict |-> EmptyMap]
PyDict(d) == [kind |-> "dict", truthy |-> DOMAIN d # {}, str |-> <<>>, dict |-> d]

(* v or default *)
Or(v, default) == IF v.truthy THEN v ELSE default

(* d.pop(k, None) on a mapping *)
Pop(d, k) == [x \in DOMAIN d \ {k} |-> d[x]]


----------------------------------------------------------------------------
(* Inputs: what request.get_json(silent=True) can hand to the handler *)

url_example == <<"h","t","t","p",":","/","/","e","x","a","m","p","l","e",
                 ".","t","e","s","t","/","x">>
url_api == <<"h","t","t","p","s",":","/","/","a","p","i",".","t","e","s","t">>

TargetUrls ==
    {PyMissing, PyNone, PyStr(<<>>), PyStr(url_example), PyInt(<<"0">>),
     PyInt(<<"5">>)}

MethodValues ==
    {PyMissing, PyNone, PyStr(<<>>), PyStr(<<"g","e","t">>), PyStr(s_GET),
     PyStr(<<"D","e","l","e","t","e">>), PyInt(<<"5">>)}

RequestHeaderNames ==
    {s_host, <<"H","O","S","T">>, s_Content_Length,
     <<"C","o","n","t","e","n","t","-","l","e","n","g","t","h">>,
     <<"A","u","t","h","o","r","i","z","a","t","i","o","n">>}

(* All mappings from at most max of the names to the values *)
DictsOver(names, values, max) ==
    UNION {[S -> values] : S \in {T \in SUBSET names : Cardinality(T) <= max}}

HeaderValues ==
    {PyMissing, PyNone, PyStr(<<"a","b","c">>), PyList(<<>>), PyList(<<"1">>)}
    \cup {PyDict(d) : d \in DictsOver(RequestHeaderNames, {<<"v">>}, MaxHeaders)}

BodyValues ==
    {PyMissing, PyNone, PyInt(<<"0">>), PyDict(<<"a">> :> <<"1">>)}

(* A JSON object with the four keys the handler reads (absent keys: PyMissing) *)
JsonObject(u, m, h, b) ==
    [kind |-> "dict",
     truthy |-> \E v \in {u, m, h, b} : v.kind # "missing",
     targetUrl |-> u, method |-> m, headers |-> h, body |-> b]

(* get_json(silent=True) results that are not objects: None (absent body,   *)
(* malformed JSON, wrong content type, JSON null) and the other JSON values *)
JsonOther(kind, truthy) ==
    [kind |-> kind, truthy |-> truthy, targetUrl |-> PyMissing,
     method |-> PyMissing, headers |-> PyMissing, body |-> PyMissing]

NonObjects ==
    {JsonOther("None", FALSE), JsonOther("list", FALSE), JsonOther("list", TRUE),
     JsonOther("str", FALSE), JsonOther("str", TRUE), JsonOther("int", FALSE),
     JsonOther("int", TRUE), JsonOther("bool", FALSE), JsonOther("bool", TRUE)}

Payloads ==
    NonObjects \cup
    {JsonObject(u, m, h, b) :
        u \in TargetUrls, m \in MethodValues, h \in HeaderValues, b \in BodyValues}

EmptyObject == JsonObject(PyMissing, PyMissing, PyMissing, PyMissing)


(* Upstream replies, as the requests.Response object shows them.  Its header *)
(* mapping is case-insensitive: no two names differ only in case.            *)
Statuses == {100, 200, 404, 500, 599}

ResponseHeaderNames ==
    {<<"C","o","n","t","e","n","t","-","E","n","c","o","d","i","n","g">>,
     s_content_encoding,
     <<"C","O","N","T","E","N","T","-","E","N","C","O","D","I","N","G">>,
     <<"T","r","a","n","s","f","e","r","-","E","n","c","o","d","i","n","g">>,
     <<"C","o","n","n","e","c","t","i","o","n">>,
     <<"C","o","n","t","e","n","t","-","T","y","p","e">>}

CaseInsensitive(d) ==
    \A a, b \in DOMAIN d : Lower(a) = Lower(b) => a = b

ResponseHeaderDicts ==
    {d \in DictsOver(ResponseHeaderNames, {<<"g","z","i","p">>}, MaxRespHeaders) :
        CaseInsensitive(d)}

Contents == {"", "{\"msg\":\"nf\"}"}

Replies ==
    [status_code : Statuses, headers : ResponseHeaderDicts, content : Contents]

(* Failures of requests.request other than the timeout *)
TransportErrors == {"ConnectionError", "SSLError"}


----------------------------------------------------------------------------
(* State *)

VARIABLES
    pc,          \* per worker thread: the line of api_proxy it is at
    request,     \* per thread: what request.get_json(silent=True) yields
    data, target_url, method, headers, body, kwargs, resp, exc,
                 \* per thread: the locals of api_proxy
    outcall,     \* per thread: the arguments requests.request was called with
    calls,       \* per thread: how often requests.request was called
    waited,      \* per thread: seconds the pending call has had no answer
    result,      \* per thread: what the invocation gave back to Flask
    listening,   \* the server accepts requests
    mpc,         \* main(): the line it is at
    exists,      \* the files present in app_dir
    port,        \* main(): the local port
    taken,       \* the ports other processes hold
    browser,     \* open_browser was called
    prompt,      \* how often input() was called
    last_input,  \* how the last input() ended
    main_exc,    \* the exception main()'s try block raised, and at which line
    listened,    \* the server has been listening at some time
    ret,         \* what main() returned
    exit_code    \* what the process exited with

relay_vars ==
    <<pc, request, data, target_url, method, headers, body, kwargs, resp, exc,
      outcall, calls, waited, result>>
main_vars ==
    <<listening, mpc, exists, port, taken, browser, prompt, last_input, main_exc,
      listened, ret, exit_code>>
vars == <<relay_vars, main_vars>>

Timeout == 120

NoData == JsonOther("unbound", FALSE)
NoKwargs == [headers |-> EmptyMap, timeout |-> 0, json |-> PyMissing]
NoResp == [status_code |-> 0, headers |-> EmptyMap, content |-> ""]
NoCall == [method |-> <<>>, url |-> PyMissing, kwargs |-> NoKwargs]
NoResult == [kind |-> "none", status |-> 0, headers |-> EmptyMap, body |-> "",
             error |-> ""]

----------------------------------------------------------------------------
(* api_proxy, line by line *)

(* variant: one request object shared by all threads *)
CurrentRequestShared(t) == request[CHOOSE u \in Threads : \A v \in Threads : u <= v]

(* flask.request is a context-local proxy: each thread sees its own request *)
CurrentRequest(t) == request[t]

(* line 105: request.get_json(silent=True) or {} *)
DataOf(req) == IF req.truthy THEN req ELSE EmptyObject

(* data.get(key): None when the key is absent *)
Get(v) == IF v.kind = "missing" THEN PyNone ELSE v

(* lines 106-109 raise AttributeError when data is no dict (list, str, int, *)
(* bool have no .get) or the method value is truthy and no str (no .upper) *)
ExtractRaises(d) ==
    \/ d.kind # "dict"
    \/ Get(d.method).truthy /\ Get(d.method).kind # "str"

(* variant: the method is not uppercased *)
MethodOfNoUpper(d) == Or(Get(d.method), PyStr(s_POST)).str

(* line 107: (data.get("method") or "POST").upper() *)
MethodOf(d) == Upper(Or(Get(d.method), PyStr(s_POST)).str)

(* line 108: data.get("headers") or {} *)
HeadersOf(d) == Or(Get(d.headers), PyDict(EmptyMap))

(* line 111: not target_url *)
Invalid(u) == ~u.truthy

(* line 115: the names popped *)
StripList == <<s_host, s_Host, s_content_length, s_Content_Length>>

(* lines 115-116 raise when headers is no dict: str and int have no .pop,  *)
(* list.pop takes one integer argument                                     *)
SanitizeRaises(h) == h.kind # "dict"

RECURSIVE PopAll(_, _)
PopAll(d, names) ==
    IF names = <<>> THEN d ELSE PopAll(Pop(d, Head(names)), Tail(names))

(* lines 115-116 on a dict *)
Sanitize(h) == PyDict(PopAll(h.dict, StripList))

(* variant: the body is attached when it is truthy *)
AttachBodyTruthy(m, b) == m # s_GET /\ b.truthy

(* line 120 *)
AttachBody(m, b) == m # s_GET /\ b.kind # "None"

(* lines 119-122 *)
BuildKwargs(m, h, b) ==
    [headers |-> h.dict, timeout |-> Timeout,
     json |-> IF AttachBody(m, b) THEN b ELSE PyMissing]

(* line 127 *)
excluded == {s_content_encoding, s_transfer_encoding, s_connection}

(* variant: the names are compared as they come *)
FilterHeadersCaseSensitive(h) ==
    [k \in {x \in DOMAIN h : x \notin excluded} |-> h[k]]

(* lines 128-130 *)
FilterHeaders(h) ==
    [k \in {x \in DOMAIN h : Lower(x) \notin excluded} |-> h[k]]

(* variant: upstream server errors are reported as 502 *)
RelayedRemapped(r) ==
    [kind |-> "raw", status |-> IF r.status_code >= 500 THEN 502 ELSE r.status_code,
     headers |-> FilterHeaders(r.headers), body |-> r.content, error |-> ""]

(* lines 132-134: Response(resp.content, status=..., headers=...) *)
Relayed(r) ==
    [kind |-> "raw", status |-> r.status_code, headers |-> FilterHeaders(r.headers),
     body |-> r.content, error |-> ""]

(* jsonify({"error": msg}), status *)
JsonError(msg, status) ==
    [kind |-> "json", status |-> status, headers |-> EmptyMap, body |-> "",
     error |-> msg]

(* an exception that leaves api_proxy: Flask answers with its own 500 page *)
Unhandled(e) ==
    [kind |-> "unhandled", status |-> 500, headers |-> EmptyMap, body |-> "",
     error |-> e]

(* variant: no timeout is passed, the call waits for ever *)
TimedOutNever(k, w) == FALSE

(* requests.request gives up once the target has been silent for the timeout *)
TimedOut(k, w) == w >= k.timeout


----------------------------------------------------------------------------
(* The bootstrap's constants *)

required_files == {"index.html", "script.js", "api.js", "utils.js", "styles.css"}

(* local ports the operating system may hand out; 0: none chosen yet *)
Ports == 1..NumPorts
NoPort == 0

NoExc == [type |-> "none", line |-> "none"]
Raised(type, line) == [type |-> type, line |-> line]

(* variant: the files are not checked *)
MissingFilesNone(ex) == {}

(* line 169 *)
MissingFiles(ex) == required_files \ ex

----------------------------------------------------------------------------
(* Worker threads: one invocation of api_proxy each *)

Idle(v) == [t \in Threads |-> v]

RelayInit ==
    /\ pc = Idle("idle")
    /\ request = Idle(NoData)
    /\ data = Idle(NoData)
    /\ target_url = Idle(PyMissing)
    /\ method = Idle(<<>>)
    /\ headers = Idle(PyMissing)
    /\ body = Idle(PyMissing)
    /\ kwargs = Idle(NoKwargs)
    /\ resp = Idle(NoResp)
    /\ exc = Idle("")
    /\ outcall = Idle(NoCall)
    /\ calls = Idle(0)
    /\ waited = Idle(0)
    /\ result = Idle(NoResult)

(* Flask dispatches POST /api/proxy to a worker thread *)
Arrive(t, p) ==
    /\ listening
    /\ pc[t] = "idle"
    /\ request' = [request EXCEPT ![t] = p]
    /\ pc' = [pc EXCEPT ![t] = "l105"]
    /\ UNCHANGED <<data, target_url, method, headers, body, kwargs, resp, exc,
                   outcall, calls, waited, result, main_vars>>

(* lines 105-109 *)
Extract(t) ==
    /\ pc[t] = "l105"
    /\ LET d == DataOf(CurrentRequest(t)) IN
       /\ data' = [data EXCEPT ![t] = d]
       /\ IF ExtractRaises(d)
          THEN /\ target_url' =
                    [target_url EXCEPT
                        ![t] = IF d.kind = "dict" THEN Get(d.targetUrl) ELSE @]
               /\ result' = [result EXCEPT ![t] = Unhandled("AttributeError")]
               /\ pc' = [pc EXCEPT ![t] = "done"]
               /\ UNCHANGED <<method, headers, body>>
          ELSE /\ target_url' = [target_url EXCEPT ![t] = Get(d.targetUrl)]
               /\ method' = [method EXCEPT ![t] = MethodOf(d)]
               /\ headers' = [headers EXCEPT ![t] = HeadersOf(d)]
               /\ body' = [body EXCEPT ![t] = Get(d.body)]
               /\ pc' = [pc EXCEPT ![t] = "l111"]
               /\ UNCHANGED result
    /\ UNCHANGED <<request, kwargs, resp, exc, outcall, calls, waited, main_vars>>

(* lines 111-112 *)
Validate(t) ==
    /\ pc[t] = "l111"
    /\ IF Invalid(target_url[t])
       THEN /\ result' = [result EXCEPT ![t] = JsonError("targetUrl is required", 400)]
            /\ pc' = [pc EXCEPT ![t] = "done"]
       ELSE /\ pc' = [pc EXCEPT ![t] = "l115"]
            /\ UNCHANGED result
    /\ UNCHANGED <<request, data, target_url, method, headers, body, kwargs, resp,
                   exc, outcall, calls, waited, main_vars>>

(* lines 115-116; headers is the very dict held in data, popped in place *)
Strip(t) ==
    /\ pc[t] = "l115"
    /\ IF SanitizeRaises(headers[t])
       THEN /\ result' =
                 [result EXCEPT
                     ![t] = Unhandled(IF headers[t].kind = "list"
                                      THEN "TypeError" ELSE "AttributeError")]
            /\ pc' = [pc EXCEPT ![t] = "done"]
            /\ UNCHANGED <<headers, data>>
       ELSE /\ headers' = [headers EXCEPT ![t] = Sanitize(@)]
            /\ data' =
                 [data EXCEPT
                     ![t].headers = IF Get(@).truthy THEN Sanitize(@) ELSE @]
            /\ pc' = [pc EXCEPT ![t] = "l119"]
            /\ UNCHANGED result
    /\ UNCHANGED <<request, target_url, method, body, kwargs, resp, exc, outcall,
                   calls, waited, main_vars>>

(* lines 119-124: requests.request(method, target_url, **kwargs) is entered *)
Call(t) ==
    /\ pc[t] = "l119"
    /\ LET k == BuildKwargs(method[t], headers[t], body[t]) IN
       /\ kwargs' = [kwargs EXCEPT ![t] = k]
       /\ outcall' =
            [outcall EXCEPT
                ![t] = [method |-> method[t], url |-> target_url[t], kwargs |-> k]]
    /\ calls' = [calls EXCEPT ![t] = @ + 1]
    /\ waited' = [waited EXCEPT ![t] = 0]
    /\ pc' = [pc EXCEPT ![t] = "l124"]
    /\ UNCHANGED <<request, data, target_url, method, headers, body, resp, exc,
                   result, main_vars>>

(* time passes while the target is silent *)
Tick(t) ==
    /\ pc[t] = "l124"
    /\ waited[t] < kwargs[t].timeout
    /\ waited' = [waited EXCEPT ![t] = @ + TickSeconds]
    /\ UNCHANGED <<pc, request, data, target_url, method, headers, body, kwargs,
                   resp, exc, outcall, calls, result, main_vars>>

(* line 124 returns: the target answered (only a str can name a target) *)
Reply(t, r) ==
    /\ pc[t] = "l124"
    /\ ~TimedOut(kwargs[t], waited[t])
    /\ target_url[t].kind = "str"
    /\ resp' = [resp EXCEPT ![t] = r]
    /\ waited' = [waited EXCEPT ![t] = 0]
    /\ pc' = [pc EXCEPT ![t] = "l127"]
    /\ UNCHANGED <<request, data, target_url, method, headers, body, kwargs, exc,
                   outcall, calls, result, main_vars>>

(* line 124 raises: DNS failure, connection refused, TLS failure, bad URL *)
Fail(t, e) ==
    /\ pc[t] = "l124"
    /\ ~TimedOut(kwargs[t], waited[t])
    /\ exc' = [exc EXCEPT ![t] = e]
    /\ waited' = [waited EXCEPT ![t] = 0]
    /\ pc' = [pc EXCEPT ![t] = "l135"]
    /\ UNCHANGED <<request, data, target_url, method, headers, body, kwargs, resp,
                   outcall, calls, result, main_vars>>

(* line 124 raises: nothing came within the timeout *)
TimeoutFires(t) ==
    /\ pc[t] = "l124"
    /\ TimedOut(kwargs[t], waited[t])
    /\ exc' = [exc EXCEPT ![t] = "ReadTimeout"]
    /\ waited' = [waited EXCEPT ![t] = 0]
    /\ pc' = [pc EXCEPT ![t] = "l135"]
    /\ UNCHANGED <<request, data, target_url, method, headers, body, kwargs, resp,
                   outcall, calls, result, main_vars>>

(* lines 127-134 *)
Respond(t) ==
    /\ pc[t] = "l127"
    /\ result' = [result EXCEPT ![t] = Relayed(resp[t])]
    /\ pc' = [pc EXCEPT ![t] = "done"]
    /\ UNCHANGED <<request, data, target_url, method, headers, body, kwargs, resp,
                   exc, outcall, calls, waited, main_vars>>

(* lines 135-137 *)
Except(t) ==
    /\ pc[t] = "l135"
    /\ result' = [result EXCEPT ![t] = JsonError(exc[t], 500)]
    /\ pc' = [pc EXCEPT ![t] = "done"]
    /\ UNCHANGED <<request, data, target_url, method, headers, body, kwargs, resp,
                   exc, outcall, calls, waited, main_vars>>

(* the response is written; the thread is free for the next request *)
Finish(t) ==
    /\ pc[t] = "done"
    /\ pc' = [pc EXCEPT ![t] = "idle"]
    /\ request' = [request EXCEPT ![t] = NoData]
    /\ data' = [data EXCEPT ![t] = NoData]
    /\ target_url' = [target_url EXCEPT ![t] = PyMissing]
    /\ method' = [method EXCEPT ![t] = <<>>]
    /\ headers' = [headers EXCEPT ![t] = PyMissing]
    /\ body' = [body EXCEPT ![t] = PyMissing]
    /\ kwargs' = [kwargs EXCEPT ![t] = NoKwargs]
    /\ resp' = [resp EXCEPT ![t] = NoResp]
    /\ exc' = [exc EXCEPT ![t] = ""]
    /\ outcall' = [outcall EXCEPT ![t] = NoCall]
    /\ calls' = [calls EXCEPT ![t] = 0]
    /\ waited' = [waited EXCEPT ![t] = 0]
    /\ result' = [result EXCEPT ![t] = NoResult]
    /\ UNCHANGED main_vars

----------------------------------------------------------------------------
(* Spec: the server is listening and serves one relay call after another *)

Serving ==
    /\ listening = TRUE
    /\ mpc = "l188"
    /\ exists = required_files
    /\ port = 1
    /\ taken = {}
    /\ browser = TRUE
    /\ prompt = 0
    /\ last_input = "none"
    /\ main_exc = NoExc
    /\ listened = TRUE
    /\ ret = "none"
    /\ exit_code = "none"

Init == RelayInit /\ Serving

Worker == CHOOSE t \in Threads : \A u \in Threads : t <= u

ArriveAny == \E p \in Payloads : Arrive(Worker, p)
ReplyAny == \E r \in Replies : Reply(Worker, r)
FailAny == \E e \in TransportErrors : Fail(Worker, e)

Next ==
    \/ ArriveAny
    \/ Extract(Worker)
    \/ Validate(Worker)
    \/ Strip(Worker)
    \/ Call(Worker)
    \/ Tick(Worker)
    \/ ReplyAny
    \/ FailAny
    \/ TimeoutFires(Worker)
    \/ Respond(Worker)
    \/ Except(Worker)
    \/ Finish(Worker)

Spec == Init /\ [][Next]_vars


----------------------------------------------------------------------------
(* main(), lines 156-206 *)

MainInit ==
    /\ RelayInit
    /\ listening = FALSE
    /\ mpc = "l159"
    /\ exists \in SUBSET required_files
    /\ port = NoPort
    /\ taken \in SUBSET Ports
    /\ browser = FALSE
    /\ prompt = 0
    /\ last_input = "none"
    /\ main_exc = NoExc
    /\ listened = FALSE
    /\ ret = "none"
    /\ exit_code = "none"

(* lines 173 and 201 call input(); line 173 is inside the try block *)
InTry == mpc \in {"l159", "l173", "l176", "l186", "l188", "serving"}

(* lines 159-172: the files are checked; with files missing, input() is next *)
CheckFiles ==
    /\ mpc = "l159"
    /\ IF MissingFiles(exists) # {}
       THEN /\ mpc' = "l173"
            /\ prompt' = prompt + 1
       ELSE /\ mpc' = "l176"
            /\ UNCHANGED prompt
    /\ UNCHANGED <<relay_vars, listening, exists, port, taken, browser, last_input,
                   main_exc, listened, ret, exit_code>>

(* lines 173-174: the operator presses Enter *)
AnswerMissing ==
    /\ mpc = "l173"
    /\ last_input' = "enter"
    /\ ret' = "1"
    /\ mpc' = "returned"
    /\ UNCHANGED <<relay_vars, listening, exists, port, taken, browser, prompt,
                   main_exc, listened, exit_code>>

(* an exception other than KeyboardInterrupt inside the try block:          *)
(* lines 199-201 print it and call input()                                  *)
Caught(type) ==
    /\ main_exc' = Raised(type, mpc)
    /\ mpc' = "l201"
    /\ prompt' = prompt + 1
    /\ listening' = FALSE

(* line 173: standard input is closed, input() raises EOFError *)
EofMissing ==
    /\ mpc = "l173"
    /\ last_input' = "eof"
    /\ Caught("EOFError")
    /\ UNCHANGED <<relay_vars, exists, port, taken, browser, listened, ret,
                   exit_code>>

(* Ctrl+C anywhere inside the try block: lines 196-198 *)
Interrupt ==
    /\ InTry
    /\ main_exc' = Raised("KeyboardInterrupt", mpc)
    /\ last_input' = IF mpc = "l173" THEN "interrupt" ELSE last_input
    /\ listening' = FALSE
    /\ ret' = "0"
    /\ mpc' = "returned"
    /\ UNCHANGED <<relay_vars, exists, port, taken, browser, prompt, listened,
                   exit_code>>

(* line 176, find_free_port (lines 38-44): the system assigns a port no one *)
(* holds; the socket is closed again before the port is returned            *)
FindFreePort ==
    /\ mpc = "l176"
    /\ IF Ports \ taken = {}
       THEN /\ Caught("OSError")
            /\ UNCHANGED port
       ELSE /\ port' \in Ports \ taken
            /\ mpc' = "l186"
            /\ UNCHANGED <<main_exc, prompt, listening>>
    /\ UNCHANGED <<relay_vars, exists, taken, browser, last_input, listened, ret,
                   exit_code>>

(* another process binds a port that is free at that moment *)
OtherBinds ==
    /\ mpc \notin {"returned", "raised", "exited"}
    /\ \E p \in Ports \ taken :
          /\ ~(listening /\ p = port)
          /\ taken' = taken \cup {p}
    /\ UNCHANGED <<relay_vars, listening, mpc, exists, port, browser, prompt,
                   last_input, main_exc, listened, ret, exit_code>>

(* line 186, open_browser (lines 47-70): a daemon thread is started *)
OpenBrowser ==
    /\ mpc = "l186"
    /\ browser' = TRUE
    /\ mpc' = "l188"
    /\ UNCHANGED <<relay_vars, listening, exists, port, taken, prompt, last_input,
                   main_exc, listened, ret, exit_code>>

(* lines 188-194, app.run binds the port again and listens, or raises *)
Run ==
    /\ mpc = "l188"
    /\ IF port \in taken
       THEN /\ Caught("OSError")
            /\ UNCHANGED listened
       ELSE /\ listening' = TRUE
            /\ listened' = TRUE
            /\ mpc' = "serving"
            /\ UNCHANGED <<main_exc, prompt>>
    /\ UNCHANGED <<relay_vars, exists, port, taken, browser, last_input, ret,
                   exit_code>>

(* app.run ends the process itself: SystemExit is no Exception, neither    *)
(* except clause catches it (Werkzeug reports a failed bind this way)      *)
RunExits ==
    /\ mpc = "l188"
    /\ port \in taken
    /\ main_exc' = Raised("SystemExit", mpc)
    /\ ret' = "raised"
    /\ mpc' = "raised"
    /\ UNCHANGED <<relay_vars, listening, exists, port, taken, browser, prompt,
                   last_input, listened, exit_code>>

(* app.run returns: line 195 *)
Shutdown ==
    /\ mpc = "serving"
    /\ listening' = FALSE
    /\ ret' = "0"
    /\ mpc' = "returned"
    /\ UNCHANGED <<relay_vars, exists, port, taken, browser, prompt, last_input,
                   main_exc, listened, exit_code>>

(* app.run raises while serving *)
ServeFails ==
    /\ mpc = "serving"
    /\ Caught("RuntimeError")
    /\ UNCHANGED <<relay_vars, exists, port, taken, browser, last_input, listened,
                   ret, exit_code>>

(* lines 201-202: the operator presses Enter *)
AnswerFailed ==
    /\ mpc = "l201"
    /\ last_input' = "enter"
    /\ ret' = "1"
    /\ mpc' = "returned"
    /\ UNCHANGED <<relay_vars, listening, exists, port, taken, browser, prompt,
                   main_exc, listened, exit_code>>

(* line 201 is outside the try block: what input() raises leaves main() *)
PromptRaises(how) ==
    /\ mpc = "l201"
    /\ last_input' = how
    /\ ret' = "raised"
    /\ mpc' = "raised"
    /\ UNCHANGED <<relay_vars, listening, exists, port, taken, browser, prompt,
                   main_exc, listened, exit_code>>

PromptEof == PromptRaises("eof")
PromptInterrupt == PromptRaises("interrupt")

(* lines 205-206: sys.exit(main()); an uncaught exception ends the process *)
(* with status 1, an uncaught KeyboardInterrupt with the platform's        *)
(* interrupt status                                                         *)
ExitCode(r, how) ==
    IF r \in {"0", "1"} THEN r
    ELSE IF how = "interrupt" THEN "interrupt" ELSE "1"

Exit ==
    /\ mpc \in {"returned", "raised"}
    /\ exit_code' = ExitCode(ret, last_input)
    /\ mpc' = "exited"
    /\ UNCHANGED <<relay_vars, listening, exists, port, taken, browser, prompt,
                   last_input, main_exc, listened, ret>>

MainNext ==
    \/ CheckFiles
    \/ AnswerMissing
    \/ EofMissing
    \/ Interrupt
    \/ FindFreePort
    \/ OtherBinds
    \/ OpenBrowser
    \/ Run
    \/ RunExits
    \/ Shutdown
    \/ ServeFails
    \/ AnswerFailed
    \/ PromptEof
    \/ PromptInterrupt
    \/ Exit

MainSpec == MainInit /\ [][MainNext]_vars


----------------------------------------------------------------------------
(* ConcSpec: app.run(threaded=True), every request on its own thread *)

ConcPayloads ==
    {EmptyObject,
     JsonObject(PyStr(url_example), PyStr(<<"g","e","t">>),
                PyDict(<<"H","O","S","T">> :> <<"v">>),
                PyDict(<<"a">> :> <<"1">>)),
     JsonObject(PyStr(url_api), PyMissing,
                PyDict(s_host :> <<"v">>), PyInt(<<"0">>))}

ConcReplies ==
    {[status_code |-> 200, headers |-> EmptyMap, content |-> "{\"msg\":\"nf\"}"],
     [status_code |-> 404, headers |-> (s_content_encoding :> <<"g","z","i","p">>),
      content |-> ""]}

ConcNext ==
    \E t \in Threads :
        \/ \E p \in ConcPayloads : Arrive(t, p)
        \/ Extract(t)
        \/ Validate(t)
        \/ Strip(t)
        \/ Call(t)
        \/ Tick(t)
        \/ \E r \in ConcReplies : Reply(t, r)
        \/ \E e \in TransportErrors : Fail(t, e)
        \/ TimeoutFires(t)
        \/ Respond(t)
        \/ Except(t)
        \/ Finish(t)

ConcSpec == Init /\ [][ConcNext]_vars

(* LiveSpec: a worker thread that can take a step of the handler takes it,  *)
(* time passes, and the timer of requests fires; that the target answers is *)
(* not assumed                                                              *)
Progress(t) ==
    \/ Extract(t)
    \/ Validate(t)
    \/ Strip(t)
    \/ Call(t)
    \/ Tick(t)
    \/ TimeoutFires(t)
    \/ Respond(t)
    \/ Except(t)

LiveSpec == Init /\ [][ConcNext]_vars /\ \A t \in Threads : WF_vars(Progress(t))


----------------------------------------------------------------------------
(* Claims about one invocation, checked on the worker of Spec *)

Returned(t) == pc[t] = "done"
CallMade(t) == calls[t] > 0
Replied(t) == resp[t] # NoResp

(* the JSON object the handler reads its four fields from *)
Supplied(t) == DataOf(request[t])

(* targetUrl is missing, null or empty in the inbound object *)
TargetAbsent(t) ==
    /\ Supplied(t).kind = "dict"
    /\ \/ Supplied(t).targetUrl.kind \in {"missing", "None"}
       \/ Supplied(t).targetUrl = PyStr(<<>>)

(* C1: every payload whose targetUrl is missing, empty or null is answered  *)
(* with exactly {error: "targetUrl is required"}, status 400, and without   *)
(* any outbound call.                                                       *)
C1_MissingTargetIs400 ==
    (Returned(Worker) /\ TargetAbsent(Worker)) =>
        /\ result[Worker].kind = "json"
        /\ result[Worker].status = 400
        /\ result[Worker].error = "targetUrl is required"
        /\ calls[Worker] = 0

(* C2: the headers handed to the outbound call hold no key equal to host or *)
(* content-length under any casing.                                         *)
C2_NoHostNoContentLength ==
    CallMade(Worker) =>
        \A k \in DOMAIN outcall[Worker].kwargs.headers :
            Lower(k) \notin {s_host, s_content_length}

(* C3: when the outbound call completes with an upstream reply, the status  *)
(* returned is the upstream status (4xx and 5xx included) and the body is   *)
(* the upstream body, unmodified.                                           *)
C3_StatusAndBodyRelayed ==
    (Returned(Worker) /\ Replied(Worker)) =>
        /\ result[Worker].kind = "raw"
        /\ result[Worker].status = resp[Worker].status_code
        /\ result[Worker].body = resp[Worker].content

C3_Witness ==
    /\ Returned(Worker)
    /\ resp[Worker].status_code = 599
    /\ result[Worker].status = 599
    /\ result[Worker].body = "{\"msg\":\"nf\"}"

(* C4: an upstream header named content-encoding, transfer-encoding or      *)
(* connection under any casing is absent from the relayed response, every   *)
(* other upstream header is relayed with its name and value, and filtering  *)
(* the relayed headers again changes nothing.                               *)
C4_Stripped ==
    {<<"c","o","n","t","e","n","t","-","e","n","c","o","d","i","n","g">>,
     <<"t","r","a","n","s","f","e","r","-","e","n","c","o","d","i","n","g">>,
     <<"c","o","n","n","e","c","t","i","o","n">>}

C4_HeaderFilter ==
    (Returned(Worker) /\ Replied(Worker)) =>
        LET up == resp[Worker].headers
            down == result[Worker].headers IN
        /\ DOMAIN down \subseteq DOMAIN up
        /\ \A k \in DOMAIN up :
              IF Lower(k) \in C4_Stripped
              THEN k \notin DOMAIN down
              ELSE k \in DOMAIN down /\ down[k] = up[k]
        /\ FilterHeaders(down) = down

C4_Witness ==
    /\ Returned(Worker)
    /\ DOMAIN resp[Worker].headers =
          {<<"C","O","N","T","E","N","T","-","E","N","C","O","D","I","N","G">>}
    /\ DOMAIN result[Worker].headers = {}

(* C5: the outbound call carries a body if and only if the normalized       *)
(* method is not GET and a non-null body was supplied; it is then the       *)
(* supplied value, passed as json.                                          *)
C5_BodyIffNotGetAndSupplied ==
    CallMade(Worker) =>
        LET b == Supplied(Worker).body
            attached == outcall[Worker].kwargs.json # PyMissing IN
        /\ attached <=>
              (outcall[Worker].method # s_GET /\ b.kind \notin {"missing", "None"})
        /\ attached => outcall[Worker].kwargs.json = b
        /\ Lower(Supplied(Worker).method.str) = <<"g","e","t">> => ~attached

C5_Witness ==
    /\ CallMade(Worker)
    /\ Supplied(Worker).method = PyStr(<<"g","e","t">>)
    /\ Supplied(Worker).body.kind = "dict"
    /\ outcall[Worker].kwargs.json = PyMissing

(* C6, as stated: the outbound method is POST when the request omits        *)
(* method and otherwise the supplied method in uppercase; the call goes to  *)
(* exactly the supplied targetUrl.                                          *)
C6_MethodAsStated ==
    CallMade(Worker) =>
        /\ outcall[Worker].method =
              IF Supplied(Worker).method.kind = "missing"
              THEN <<"P","O","S","T">>
              ELSE Upper(Supplied(Worker).method.str)
        /\ outcall[Worker].url = Supplied(Worker).targetUrl

(* C6, amended: the outbound method is POST when the request omits method   *)
(* or supplies an empty one ("" or null), and otherwise the supplied method *)
(* in uppercase; the call goes to exactly the supplied targetUrl.           *)
C6_MethodDefaultAndUpper ==
    CallMade(Worker) =>
        /\ outcall[Worker].method =
              IF Supplied(Worker).method.kind \in {"missing", "None"}
                  \/ Supplied(Worker).method = PyStr(<<>>)
              THEN <<"P","O","S","T">>
              ELSE Upper(Supplied(Worker).method.str)
        /\ outcall[Worker].url = Supplied(Worker).targetUrl

C6_Witness ==
    /\ CallMade(Worker)
    /\ Supplied(Worker).method = PyStr(<<"D","e","l","e","t","e">>)
    /\ outcall[Worker].method = <<"D","E","L","E","T","E">>
    /\ outcall[Worker].url = PyStr(url_example)

(* C7: whatever the inbound body, the handler returns the 400 validation    *)
(* error, the relayed upstream response or the 500 transport error, and no  *)
(* exception leaves it.                                                     *)
C7_AlwaysStructured ==
    Returned(Worker) =>
        \/ result[Worker] = JsonError("targetUrl is required", 400)
        \/ result[Worker].kind = "raw" /\ Replied(Worker)
        \/ result[Worker].kind = "json" /\ result[Worker].status = 500

----------------------------------------------------------------------------
(* Claims about concurrent invocations *)

(* C8: every relay call that reaches the outbound call returns; when the    *)
(* call fails or the target stays silent for the timeout the caller gets    *)
(* status 500 with {error: message}, after exactly one outbound call.       *)
C8_FailureIs500 ==
    \A t \in Threads :
        /\ calls[t] <= 1
        /\ (Returned(t) /\ exc[t] # "") =>
              /\ result[t] = JsonError(exc[t], 500)
              /\ calls[t] = 1

(* C8, in full: the above always holds, and a call that has entered the    *)
(* outbound request returns, whether or not the target ever answers.       *)
C8_Returns ==
    /\ []C8_FailureIs500
    /\ \A t \in Threads : (pc[t] = "l124") ~> Returned(t)

C8_Witness ==
    \E t \in Threads :
        /\ Returned(t)
        /\ exc[t] = "ReadTimeout"
        /\ result[t].status = 500
        /\ calls[t] = 1

(* what a call with this payload sends, whatever else is going on *)
ExpectedCall(req) ==
    LET d == DataOf(req) IN
    [method |-> MethodOf(d), url |-> Get(d.targetUrl),
     kwargs |-> BuildKwargs(MethodOf(d), Sanitize(HeadersOf(d)), Get(d.body))]

(* C10: under every interleaving, the outbound request of a call is         *)
(* determined by its own inbound payload and its response by its own        *)
(* payload and its own upstream reply or failure.                           *)
C10_OwnPayloadOnly ==
    \A t \in Threads :
        /\ CallMade(t) => outcall[t] = ExpectedCall(request[t])
        /\ Returned(t) =>
              result[t] =
                 IF Invalid(Get(DataOf(request[t]).targetUrl))
                 THEN JsonError("targetUrl is required", 400)
                 ELSE IF Replied(t) THEN Relayed(resp[t])
                 ELSE JsonError(exc[t], 500)

C10_Witness ==
    \E t, u \in Threads :
        /\ t # u
        /\ pc[t] = "l124" /\ pc[u] = "l124"
        /\ outcall[t].method = s_GET /\ outcall[u].method = s_POST
        /\ outcall[t].url # outcall[u].url


----------------------------------------------------------------------------
(* Claims about main() *)

FilesMissing == \E f \in required_files : f \notin exists
Ended == mpc \in {"returned", "raised", "exited"}
BindFailed == main_exc.line = "l188" /\ main_exc.type \in {"OSError", "SystemExit"}
Interrupted == main_exc.type = "KeyboardInterrupt"
CleanShutdown == main_exc = NoExc /\ listened /\ Ended

====
